---------------------------- MODULE Spec2Model ----------------------------
(***************************************************************************)
(* Talent Pulse dashboard: the Flask variant (src/app.py) and the          *)
(* Streamlit variant (src/revenue.py).                                     *)
(*                                                                         *)
(* Five specifications share this module:                                  *)
(*   SpecFn   the helper functions (inr_format, percentage_change,         *)
(*            classify_usage) applied to enumerated arguments;             *)
(*   Spec     the Flask process: the start-up load of raw_data and the     *)
(*            five request handlers;                                       *)
(*   SpecSt   the runs of the Streamlit script over its data frame;        *)
(*   SpecLoad invocations of load_data from any state of the generator;    *)
(*   SpecData get_data over record lists in which fields may be absent.    *)
(*                                                                         *)
(* Modelling conventions.  A Python value is a tagged record (PyInt,       *)
(* PyNone, PyNaN, PyStr).  Numbers are exact rationals n/d kept in lowest  *)
(* terms, so float rounding error is not modelled.  Amounts of money are   *)
(* whole rupees.  The outcome of a call is Ret(value) or Raise(exception). *)
(***************************************************************************)
EXTENDS Integers, Sequences, FiniteSets, TLC

VARIABLES
    args,       \* SpecFn: the argument tuple of the helper call
    called,     \* SpecFn: the helper applied last ("none" before any call)
    result,     \* SpecFn: the outcome of that call
    gen,        \* Spec, SpecSt: the parameters of the pseudo-random generator (fixed)
    rng,        \* Spec: the state of the process-wide generator of `random`
    raw_data,   \* Spec: the process-wide dataset of app.py
    loaded,     \* Spec: history, raw_data as the start-up code left it
    request,    \* Spec: the request served last
    frame,      \* Spec: the local variables of the handler that served it
    response,   \* Spec: the response it returned
    df,         \* SpecSt: the data frame load_data of revenue.py returned
    now,        \* SpecSt: the month pd.Timestamp.now() falls in
    selected,   \* SpecSt: the sidebar selection of the run
    shown       \* SpecSt: what the run of the script computed

fnVars == <<args, called, result>>

vars == <<rng, raw_data, loaded, request, frame, response>>

stVars == <<df, now, selected, shown>>

allVars == <<fnVars, gen, vars, stVars>>

----------------------------------------------------------------------------
(* Python values and exact arithmetic                                      *)

Abs(i) == IF i < 0 THEN -i ELSE i

RECURSIVE GCD(_, _)
GCD(a, b) == IF b = 0 THEN a ELSE GCD(b, a % b)

\* n/d in lowest terms with a positive denominator (d # 0)
Rat(n, d) ==
    LET g == GCD(Abs(n), Abs(d))
        s == IF d < 0 THEN -1 ELSE 1
    IN  [t |-> "num", n |-> s * (n \div g), d |-> s * (d \div g)]

PyInt(i)  == [t |-> "num", n |-> i, d |-> 1]
PyNone    == [t |-> "none"]
PyNaN     == [t |-> "nan"]
PyStr(s)  == [t |-> "str", s |-> s]

IsNum(x)  == x.t = "num"
IsZero(x) == IsNum(x) /\ x.n = 0

RSub(a, b) ==
    LET g == GCD(a.d, b.d)
    IN  Rat(a.n * (b.d \div g) - b.n * (a.d \div g), (a.d \div g) * b.d)

\* a * b, cancelling across the operands before multiplying
RMul(a, b) ==
    LET g1 == GCD(Abs(a.n), b.d)
        g2 == GCD(Abs(b.n), a.d)
        h1 == IF g1 = 0 THEN 1 ELSE g1
        h2 == IF g2 = 0 THEN 1 ELSE g2
    IN  Rat((a.n \div h1) * (b.n \div h2), (a.d \div h2) * (b.d \div h1))

\* a / b for b # 0
RDiv(a, b) == RMul(a, Rat(b.d, b.n))

RLess(a, b) == a.n * b.d < b.n * a.d

Ret(v)   == [kind |-> "return", value |-> v]
Raise(e) == [kind |-> "raise", exc |-> e]

----------------------------------------------------------------------------
(* Text of numbers                                                         *)

Digit(i) == SubSeq("0123456789", i + 1, i + 1)

\* str(n) for n >= 0
RECURSIVE IntStr(_)
IntStr(n) == IF n < 10 THEN Digit(n) ELSE IntStr(n \div 10) \o Digit(n % 10)

Pad3(n) == Digit(n \div 100) \o Digit((n \div 10) % 10) \o Digit(n % 10)

\* format(n, ",") for n >= 0: groups of three digits separated by commas
RECURSIVE Grouped(_)
Grouped(n) ==
    IF n < 1000 THEN IntStr(n)
    ELSE Grouped(n \div 1000) \o "," \o Pad3(n % 1000)

Sign(x) == IF x < 0 THEN "-" ELSE ""

\* round(a / b) to the nearest integer, a tie going to the even neighbour
\* (a >= 0, b > 0): the rounding of float formatting when the quotient is
\* exactly representable
RoundHalfEven(a, b) ==
    LET q == a \div b
        r == a % b
    IN  IF 2 * r > b \/ (2 * r = b /\ q % 2 = 1) THEN q + 1 ELSE q

\* f"{x/scale:.2f}" for an integer x
Fixed2(x, scale) ==
    LET whole == Abs(x) \div scale
        h     == whole * 100 + RoundHalfEven((Abs(x) % scale) * 100, scale)
    IN  Sign(x) \o IntStr(h \div 100) \o "." \o Digit((h \div 10) % 10)
            \o Digit(h % 10)

\* f"{x:,.0f}" for an integer x
Plain0(x) == Sign(x) \o Grouped(Abs(x))

----------------------------------------------------------------------------
(* Helper functions                                                        *)

Crore == 10000000
Lakh  == 100000

\* the currency sign that starts every formatted amount
Rupee == "Rs"

ZeroText == Rupee \o "0"

\* FormatBands with the Lakh edge excluded from the Lakh band (> for >=)
FormatBands_edge(x) ==
    IF Abs(x) >= Crore THEN Rupee \o Fixed2(x, Crore) \o " Cr"
    ELSE IF Abs(x) > Lakh THEN Rupee \o Fixed2(x, Lakh) \o " L"
    ELSE Rupee \o Plain0(x)

\* the three numeric branches shared by both variants of inr_format
FormatBands(x) ==
    IF Abs(x) >= Crore THEN Rupee \o Fixed2(x, Crore) \o " Cr"
    ELSE IF Abs(x) >= Lakh THEN Rupee \o Fixed2(x, Lakh) \o " L"
    ELSE Rupee \o Plain0(x)

\* bool(x) of Python: None, 0 and the empty string are falsy, NaN is truthy
Truthy(x) ==
    CASE x.t = "none" -> FALSE
      [] x.t = "num"  -> x.n # 0
      [] x.t = "str"  -> x.s # ""
      [] OTHER        -> TRUE

\* app.py inr_format: every exception is caught and gives the zero text
inr_format_flask(x) ==
    IF ~Truthy(x) \/ IsZero(x) THEN Ret(ZeroText)
    ELSE CASE x.t = "str" -> Ret(ZeroText)          \* abs(str): TypeError, caught
           [] x.t = "nan" -> Ret(Rupee \o "nan")    \* no comparison holds: last branch
           [] OTHER       -> Ret(FormatBands(x.n))

\* pd.isna(x) for a scalar
isna(x) == x.t \in {"none", "nan"}

\* revenue.py inr_format: no exception handler
inr_format_streamlit(x) ==
    IF isna(x) \/ IsZero(x) THEN Ret(ZeroText)
    ELSE IF x.t = "str" THEN Raise("TypeError")     \* abs(str)
    ELSE Ret(FormatBands(x.n))

\* PctBody reporting 100 for every change from a zero baseline
PctBody_hundred(current, previous) ==
    IF IsZero(previous)
    THEN CASE current.t \in {"num", "nan"} -> Ret(PyInt(100))
           [] OTHER -> Raise("TypeError")
    ELSE CASE current.t \in {"none", "str"} \/ previous.t \in {"none", "str"}
                  -> Raise("TypeError")
           [] current.t = "nan" \/ previous.t = "nan" -> Ret(PyNaN)
           [] OTHER ->
                  Ret(RMul(RDiv(RSub(current, previous), previous), PyInt(100)))

\* PctBody with the zero baseline reporting 100 for current = 0 (>= for >)
PctBody_ge(current, previous) ==
    IF IsZero(previous)
    THEN CASE current.t = "num" ->
                  Ret(IF current.n >= 0 THEN PyInt(100) ELSE PyInt(0))
           [] current.t = "nan" -> Ret(PyInt(0))
           [] OTHER -> Raise("TypeError")
    ELSE CASE current.t \in {"none", "str"} \/ previous.t \in {"none", "str"}
                  -> Raise("TypeError")
           [] current.t = "nan" \/ previous.t = "nan" -> Ret(PyNaN)
           [] OTHER ->
                  Ret(RMul(RDiv(RSub(current, previous), previous), PyInt(100)))

\* the body shared by both variants of percentage_change
PctBody(current, previous) ==
    IF IsZero(previous)
    THEN CASE current.t = "num" ->
                  Ret(IF current.n > 0 THEN PyInt(100) ELSE PyInt(0))
           [] current.t = "nan" -> Ret(PyInt(0))    \* nan > 0 is False
           [] OTHER -> Raise("TypeError")           \* None > 0, "s" > 0
    ELSE CASE current.t \in {"none", "str"} \/ previous.t \in {"none", "str"}
                  -> Raise("TypeError")
           [] current.t = "nan" \/ previous.t = "nan" -> Ret(PyNaN)
           [] OTHER ->
                  Ret(RMul(RDiv(RSub(current, previous), previous), PyInt(100)))

\* revenue.py percentage_change
percentage_change_streamlit(current, previous) == PctBody(current, previous)

\* app.py percentage_change: every exception is caught and gives 0
percentage_change_flask(current, previous) ==
    LET r == PctBody(current, previous)
    IN  IF r.kind = "raise" THEN Ret(PyInt(0)) ELSE r

\* classify_usage with the Heavy edge excluded (> 20 for >= 20)
classify_usage_gt(days) ==
    CASE days.t \in {"none", "str"} -> Raise("TypeError")
      [] days.t = "nan" -> Ret("Dormant")
      [] OTHER ->
           IF RLess(PyInt(20), days) THEN Ret("Heavy")
           ELSE IF ~RLess(days, PyInt(10)) THEN Ret("Medium")
           ELSE IF ~RLess(days, PyInt(1)) THEN Ret("Low")
           ELSE Ret("Dormant")

\* revenue.py classify_usage
classify_usage(days) ==
    CASE days.t \in {"none", "str"} -> Raise("TypeError")
      [] days.t = "nan" -> Ret("Dormant")           \* every comparison is False
      [] OTHER ->
           IF ~RLess(days, PyInt(20)) THEN Ret("Heavy")
           ELSE IF ~RLess(days, PyInt(10)) THEN Ret("Medium")
           ELSE IF ~RLess(days, PyInt(1)) THEN Ret("Low")
           ELSE Ret("Dormant")

----------------------------------------------------------------------------
(* SpecFn: the helpers applied to enumerated arguments                     *)

\* no Flask process runs
FlaskIdle ==
    /\ rng = <<>> /\ raw_data = <<>> /\ loaded = <<>>
    /\ request = <<>> /\ frame = <<>> /\ response = <<>>

\* no helper call is traced
FnIdle == args = <<>> /\ called = "none" /\ result = <<>>

\* no Streamlit script runs
StIdle == df = <<>> /\ now = <<>> /\ selected = <<>> /\ shown = <<>>

MaxDays  == 31      \* days of activity enumerated, 0 .. MaxDays
MaxDelta == 2       \* amounts enumerated within MaxDelta of each band edge
MaxPct   == 3       \* percentage_change operands, multiples of 50 up to 50 * MaxPct

Around(c) == {c + k : k \in -MaxDelta .. MaxDelta}

\* whole-rupee amounts: the band edges and their neighbourhoods, the
\* examples of the documentation, and a tie of the two-decimal rounding
Amounts ==
    LET pos == Around(0) \cup Around(1000) \cup Around(Lakh) \cup Around(Crore)
                 \cup {1, 999, 5000, 99999, 112500, 150000, 1234567,
                       9994999, 9995000, 9999999, 12345678, 25000000}
    IN  pos \cup {-a : a \in pos}

DayCounts == (0 .. MaxDays) \cup {1000}

NonNumbers == {PyNone, PyNaN, PyStr("abc"), PyStr("")}

PctOperands ==
    {PyInt(50 * k) : k \in -MaxPct .. MaxPct} \cup {Rat(1, 2), Rat(-5, 2)}
        \cup NonNumbers

FnArgs ==
    {<<PyInt(a)>> : a \in Amounts \cup DayCounts}
        \cup {<<v>> : v \in NonNumbers}
        \cup (PctOperands \X PctOperands)

InitFn ==
    /\ args \in FnArgs
    /\ called = "none"
    /\ result = Ret(PyNone)
    /\ gen = <<>>
    /\ FlaskIdle
    /\ StIdle

CallInrFormatFlask ==
    /\ called = "none" /\ Len(args) = 1
    /\ called' = "inr_format_flask"
    /\ result' = inr_format_flask(args[1])
    /\ UNCHANGED <<args, gen, vars, stVars>>

CallInrFormatStreamlit ==
    /\ called = "none" /\ Len(args) = 1
    /\ called' = "inr_format_streamlit"
    /\ result' = inr_format_streamlit(args[1])
    /\ UNCHANGED <<args, gen, vars, stVars>>

CallPercentageChangeFlask ==
    /\ called = "none" /\ Len(args) = 2
    /\ called' = "percentage_change_flask"
    /\ result' = percentage_change_flask(args[1], args[2])
    /\ UNCHANGED <<args, gen, vars, stVars>>

CallPercentageChangeStreamlit ==
    /\ called = "none" /\ Len(args) = 2
    /\ called' = "percentage_change_streamlit"
    /\ result' = percentage_change_streamlit(args[1], args[2])
    /\ UNCHANGED <<args, gen, vars, stVars>>

CallClassifyUsage ==
    /\ called = "none" /\ Len(args) = 1
    /\ called' = "classify_usage"
    /\ result' = classify_usage(args[1])
    /\ UNCHANGED <<args, gen, vars, stVars>>

NextFn ==
    \/ CallInrFormatFlask
    \/ CallInrFormatStreamlit
    \/ CallPercentageChangeFlask
    \/ CallPercentageChangeStreamlit
    \/ CallClassifyUsage

SpecFn == InitFn /\ [][NextFn]_allVars

----------------------------------------------------------------------------
(* Sequences and dictionaries                                              *)

\* s[lo] + ... + s[hi], by halves
RECURSIVE SumRange(_, _, _)
SumRange(s, lo, hi) ==
    IF lo > hi THEN 0
    ELSE IF lo = hi THEN s[lo]
    ELSE LET mid == (lo + hi) \div 2
         IN  SumRange(s, lo, mid) + SumRange(s, mid + 1, hi)

SumInts(s) == SumRange(s, 1, Len(s))

Range(s) == {s[i] : i \in DOMAIN s}

\* the sequence s itself, its elements evaluated once and for all
Listed(s) == s \o <<>>

Take(s, n) == SubSeq(s, 1, IF Len(s) < n THEN Len(s) ELSE n)

\* item.get(key, default)
Get(item, key, default) == IF key \in DOMAIN item THEN item[key] ELSE default

\* SetItem with the new key taking the place of revenue_inr
SetItem_replacing(item, key, value) ==
    [k \in (DOMAIN item \ {"revenue_inr"}) \cup {key} |->
        IF k = key THEN value ELSE item[k]]

\* item[key] = value on a dict
SetItem(item, key, value) == (key :> value) @@ item

----------------------------------------------------------------------------
(* The generator of the random module and load_data of app.py              *)

Seed        == 42
NumRecords  == 50
RawModulus  == 9973
RawFactor   == 2741
RevenueLow  == 100000
RevenueHigh == 5000000
RevenueStep == 100000   \* uniform() is drawn on a grid of whole rupees

GenA == 2       \* generators enumerated: gen.a in 1 .. GenA
GenB == 1       \*                        gen.b in 0 .. GenB

sectors == <<"Technology", "Healthcare", "Finance", "Manufacturing",
             "Retail", "Education", "Government", "Consulting">>
skus    == <<"TP Starter", "TP Professional", "TP Enterprise", "TP Premium">>
regions == <<"North", "South", "East", "West", "Central">>

Generators == [a : 1 .. GenA, b : 0 .. GenB]

\* random.seed(s): the generator restarts from the state the seed fixes
Seeded(s) == [seed |-> s, pos |-> 0]

\* The variate the generator yields in state g.  The Mersenne Twister is
\* stood for by a fixed function of the seed and the number of draws since
\* seeding; gen ranges over a family of such functions.
Raw(g) ==
    ((g.pos + gen.b + 1) * (g.pos + gen.b + 1) * gen.a * RawFactor
        + 7 * g.pos + g.seed) % RawModulus

\* the generator k draws later
Advance(g, k) == [g EXCEPT !.pos = @ + k]

\* random.randint(lo, hi) drawn in state g
randint(g, lo, hi) == lo + (Raw(g) % (hi - lo + 1))

\* random.choice(seq) drawn in state g
choice(g, seq) == seq[1 + (Raw(g) % Len(seq))]

\* round(random.uniform(lo, hi), 2) drawn in state g
uniform(g, lo, hi) == lo + (Raw(g) % ((hi - lo) \div RevenueStep + 1)) * RevenueStep

DrawsPerRecord == 7

Pad4(n) == Digit(n \div 1000) \o Pad3(n % 1000)

\* NewRecord with daysActive drawn from 0 .. 31
NewRecord_wide(i, g) ==
    [canonical_id   |-> "CUST_" \o Pad4(i),
     canonical_name |-> "Company_" \o IntStr(i),
     sector         |-> choice(Advance(g, 1), sectors),
     sku            |-> choice(Advance(g, 2), skus),
     revenue_inr    |-> uniform(g, RevenueLow, RevenueHigh),
     daysActive     |-> randint(Advance(g, 3), 0, 31),
     downloads      |-> randint(Advance(g, 4), 0, 500),
     searches       |-> randint(Advance(g, 5), 0, 800),
     region         |-> choice(Advance(g, 6), regions)]

\* the record load_data appends for index i, its first draw made in state g
NewRecord(i, g) ==
    [canonical_id   |-> "CUST_" \o Pad4(i),
     canonical_name |-> "Company_" \o IntStr(i),
     sector         |-> choice(Advance(g, 1), sectors),
     sku            |-> choice(Advance(g, 2), skus),
     revenue_inr    |-> uniform(g, RevenueLow, RevenueHigh),
     daysActive     |-> randint(Advance(g, 3), 0, 30),
     downloads      |-> randint(Advance(g, 4), 0, 500),
     searches       |-> randint(Advance(g, 5), 0, 800),
     region         |-> choice(Advance(g, 6), regions)]

\* app.py load_data: reseeds, then appends NumRecords records
load_data ==
    Listed([i \in 1 .. NumRecords |->
        NewRecord(i - 1, Advance(Seeded(Seed), DrawsPerRecord * (i - 1)))])

\* the generator as load_data leaves it
AfterLoad == Advance(Seeded(Seed), DrawsPerRecord * NumRecords)

----------------------------------------------------------------------------
(* Computations of the handlers of app.py                                  *)

Indices(data) == [i \in 1 .. Len(data) |-> i]

Revenue(item) == Get(item, "revenue_inr", 0)

\* sum(item.get(key, 0) for item in data)
SumField(data, key) ==
    SumInts(Listed([i \in DOMAIN data |-> Get(data[i], key, 0)]))

\* CountCustomers over the records that carry a canonical_id only
CountCustomers_present(data) ==
    Cardinality({data[i]["canonical_id"] :
                    i \in {j \in DOMAIN data : "canonical_id" \in DOMAIN data[j]}})

\* len(set(item.get('canonical_id', '') for item in data))
CountCustomers(data) ==
    Cardinality({Get(data[i], "canonical_id", "") : i \in DOMAIN data})

\* GroupStep with the amount assigned instead of added (= for +=)
GroupStep_assign(acc, sku, amount) ==
    LET known == \E j \in DOMAIN acc : acc[j].key = sku
        acc1  == IF known THEN acc ELSE Append(acc, [key |-> sku, value |-> 0])
        at    == CHOOSE j \in DOMAIN acc1 : acc1[j].key = sku
    IN  [acc1 EXCEPT ![at].value = amount]

\* One turn of the loop that fills revenue_by_sku.  The dict is the sequence
\* of its (key, value) entries in insertion order: a key not yet in it is
\* inserted with 0, then the amount is added to its value.
GroupStep(acc, sku, amount) ==
    LET known == \E j \in DOMAIN acc : acc[j].key = sku
        acc1  == IF known THEN acc ELSE Append(acc, [key |-> sku, value |-> 0])
        at    == CHOOSE j \in DOMAIN acc1 : acc1[j].key = sku
    IN  [acc1 EXCEPT ![at].value = @ + amount]

\* the turns for entries[j ..], in order, applied to acc
RECURSIVE GroupAll(_, _, _)
GroupAll(acc, entries, j) ==
    IF j > Len(entries) THEN acc
    ELSE GroupAll(GroupStep(acc, entries[j].key, entries[j].value), entries, j + 1)

\* The dict the loop builds from data[lo .. hi].  The range is split in
\* halves to keep the evaluation shallow: the turns of the second half are
\* applied, key by key in their order of first encounter, to the result of
\* the first half.
RECURSIVE GroupFold(_, _, _)
GroupFold(data, lo, hi) ==
    IF lo > hi THEN <<>>
    ELSE IF lo = hi
         THEN GroupStep(<<>>, Get(data[lo], "sku", "Unknown"), Revenue(data[lo]))
    ELSE LET mid == (lo + hi) \div 2
         IN  GroupAll(GroupFold(data, lo, mid), GroupFold(data, mid + 1, hi), 1)

revenue_by_sku(data) == GroupFold(data, 1, Len(data))

Keys(dict)   == Listed([j \in DOMAIN dict |-> dict[j].key])
Values(dict) == Listed([j \in DOMAIN dict |-> dict[j].value])

\* SortedDesc as an ascending sort reversed: equal revenues come out in
\* reverse order
SortedDesc_reversed(data, idx) ==
    LET n    == Len(idx)
        rev  == Listed([k \in 1 .. n |-> Revenue(data[idx[k]])])
        rank == Listed([k \in 1 .. n |->
                    1 + Cardinality({j \in 1 .. n :
                            rev[j] > rev[k] \/ (rev[j] = rev[k] /\ j > k)})])
    IN  Listed([p \in 1 .. n |-> idx[CHOOSE k \in 1 .. n : rank[k] = p]])

\* sorted(idx, key=revenue, reverse=True) on the indices idx of data.  The
\* sort is stable: an element is preceded by the elements of larger revenue
\* and by the earlier elements of equal revenue.
SortedDesc(data, idx) ==
    LET n    == Len(idx)
        rev  == Listed([k \in 1 .. n |-> Revenue(data[idx[k]])])
        rank == Listed([k \in 1 .. n |->
                    1 + Cardinality({j \in 1 .. n :
                            rev[j] > rev[k] \/ (rev[j] = rev[k] /\ j < k)})])
    IN  Listed([p \in 1 .. n |-> idx[CHOOSE k \in 1 .. n : rank[k] = p]])

TopCount == 10

\* sorted(current_data, key=..., reverse=True)[:10], as indices of data
top_customers(data, idx) == Take(SortedDesc(data, idx), TopCount)

\* f"{x:+.1f}%" for a rational x
SignedPercent(x) ==
    LET tenths == RoundHalfEven(Abs(x.n) * 10, x.d)
    IN  (IF x.n < 0 THEN "-" ELSE "+") \o IntStr(tenths \div 10) \o "."
            \o Digit(tenths % 10) \o "%"

\* the records of data that pass the sku and the industry filter of
\* get_data, one filter after the other
FilterSku(data, sku) ==
    IF sku # "all"
    THEN SelectSeq(data, LAMBDA item : "sku" \in DOMAIN item /\ item["sku"] = sku)
    ELSE data

FilterIndustry(data, industry) ==
    IF industry # "all"
    THEN SelectSeq(data, LAMBDA item :
                     "sector" \in DOMAIN item /\ item["sector"] = industry)
    ELSE data

\* filtered_data with the industry filter reading the whole dataset again
filtered_data_restart(data, sku, industry) ==
    IF industry # "all" THEN FilterIndustry(data, industry) ELSE FilterSku(data, sku)

filtered_data(data, sku, industry) ==
    FilterIndustry(FilterSku(data, sku), industry)

\* avg_revenue with floor division in place of true division
avg_revenue_floor(total_revenue, total_customers) ==
    IF total_customers > 0 THEN PyInt(total_revenue \div total_customers)
    ELSE PyInt(0)

\* total_revenue / total_customers if total_customers > 0 else 0
avg_revenue(total_revenue, total_customers) ==
    IF total_customers > 0 THEN Rat(total_revenue, total_customers) ELSE PyInt(0)

\* the metrics dict of get_data
Metrics(fd) ==
    [total_revenue            |-> SumField(fd, "revenue_inr"),
     total_customers          |-> CountCustomers(fd),
     avg_revenue_per_customer |-> avg_revenue(SumField(fd, "revenue_inr"),
                                              CountCustomers(fd)),
     total_downloads          |-> SumField(fd, "downloads"),
     total_searches           |-> SumField(fd, "searches"),
     active_users             |->
         Len(SelectSeq(fd, LAMBDA item : Get(item, "daysActive", 0) > 0))]

----------------------------------------------------------------------------
(* Spec: the Flask process                                                 *)

MaxTrend == 2   \* revenue_trend requests served in one run
MaxClock == 2   \* instants datetime.now() may report, 1 .. MaxClock
MaxBroken == 1  \* records appended before a failing load_data raises, 0 .. MaxBroken

NoRequest  == [route |-> "none"]
NoFrame    == [handler |-> "none"]
NoResponse == [status |-> 0]

\* query strings enumerated for /api/data and /api/charts
Periods    == {"current_year", "last_year", "all_time"}
SkuArgs    == {"all", "TP Enterprise", "TP Basic"}
SectorArgs == {"all", "Finance", "Mining"}
ChartTypes == {"revenue_trend", "sku_distribution", "heatmap"}

\* Module start-up: raw_data = load_data(), or [] when load_data raises
\* after `broken` records (the generator is then left where it stopped).
Init ==
    /\ gen \in Generators
    /\ \E ok \in BOOLEAN :
         IF ok
         THEN /\ raw_data = load_data
              /\ rng = AfterLoad
         ELSE /\ raw_data = <<>>
              /\ \E broken \in 0 .. MaxBroken :
                   rng = Advance(Seeded(Seed), DrawsPerRecord * broken)
    /\ loaded = raw_data
    /\ request = NoRequest
    /\ frame = NoFrame
    /\ response = NoResponse
    /\ FnIdle
    /\ StIdle

\* The body of dashboard() run on the dataset data: the dataset as the
\* labelling loop leaves it, the locals, and the two pages the handler can
\* answer with (the template's context; the fallback page of the handler's
\* except branch).
dashboard(data) ==
    LET current_idx == SelectSeq(Indices(data), LAMBDA i : Revenue(data[i]) > 0)
        current_data == Listed([k \in DOMAIN current_idx |-> data[current_idx[k]]])
        current_revenue == SumField(current_data, "revenue_inr")
        current_customers == CountCustomers(current_data)
        last_year_revenue == RMul(PyInt(current_revenue), Rat(17, 20))
        revenue_growth ==
            percentage_change_flask(PyInt(current_revenue), last_year_revenue).value
        last_year_customers == (current_customers * 9) \div 10
        customer_growth ==
            percentage_change_flask(PyInt(current_customers),
                                    PyInt(last_year_customers)).value
        by_sku == revenue_by_sku(current_data)
        top_idx == top_customers(data, current_idx)
        labelled == Listed([i \in DOMAIN data |->
                       IF i \in Range(top_idx)
                       THEN SetItem(data[i], "Revenue (INR)",
                                    inr_format_flask(PyInt(Revenue(data[i]))).value)
                       ELSE data[i]])
    IN  [raw_data |-> labelled,
         current_idx |-> current_idx,
         top_idx |-> top_idx,
         template |->
             [status |-> 200, page |-> "dashboard.html",
              current_revenue |-> inr_format_flask(PyInt(current_revenue)).value,
              revenue_growth |-> SignedPercent(revenue_growth),
              current_customers |-> current_customers,
              customer_growth |-> SignedPercent(customer_growth),
              revenue_chart |-> [x |-> Keys(by_sku), y |-> Values(by_sku),
                                 type |-> "bar"],
              sku_chart |-> [values |-> Values(by_sku), labels |-> Keys(by_sku),
                             type |-> "pie"],
              industry_chart |-> [x |-> <<"Technology", "Healthcare", "Finance">>,
                                  y |-> <<30, 25, 20>>, type |-> "bar"],
              top_customers |-> [k \in DOMAIN top_idx |-> labelled[top_idx[k]]]],
         fallback |->
             [status |-> 200, page |-> "fallback",
              current_revenue |->
                  inr_format_flask(PyInt(SumField(labelled, "revenue_inr"))).value,
              total_customers |-> CountCustomers(labelled)]]

\* GET /  (dashboard).  rendered: whether render_template returns; when it
\* raises, the handler answers with its fallback page.
Dashboard ==
    \E rendered \in BOOLEAN, run \in {dashboard(raw_data)} :
      /\ raw_data' = run.raw_data
      /\ request' = [route |-> "/"]
      /\ frame' = [handler |-> "dashboard", current_idx |-> run.current_idx,
                   top_idx |-> run.top_idx]
      /\ response' = IF rendered THEN run.template ELSE run.fallback
      /\ UNCHANGED <<gen, rng, loaded, fnVars, stVars>>

\* GET /api/data?period=&sku=&industry=
GetData ==
    \E period \in Periods, sku \in SkuArgs, industry \in SectorArgs :
      LET fd == filtered_data(raw_data, sku, industry)
      IN  /\ request' = [route |-> "/api/data", period |-> period, sku |-> sku,
                         industry |-> industry]
          /\ frame' = [handler |-> "get_data", filtered_data |-> fd]
          /\ response' = [status |-> 200, json |-> Metrics(fd)]
          /\ UNCHANGED <<gen, rng, raw_data, loaded, fnVars, stVars>>

TrendLow  == 1000000
TrendHigh == 5000000
Months    == <<"Jan", "Feb", "Mar", "Apr", "May", "Jun">>

\* GET /api/charts?type=
GetCharts ==
    \E chart_type \in ChartTypes :
      /\ request' = [route |-> "/api/charts", type |-> chart_type]
      /\ frame' = [handler |-> "get_charts"]
      /\ CASE chart_type = "revenue_trend" ->
                /\ rng.pos < DrawsPerRecord * Len(loaded) + Len(Months) * MaxTrend
                /\ rng' = Advance(rng, Len(Months))
                /\ response' =
                     [status |-> 200,
                      chart_data |->
                          [x |-> Months,
                           y |-> [m \in DOMAIN Months |->
                                    randint(Advance(rng, m - 1), TrendLow, TrendHigh)],
                           type |-> "line"]]
           [] chart_type = "sku_distribution" ->
                LET by_sku == revenue_by_sku(raw_data)
                IN  /\ rng' = rng
                    /\ response' =
                         [status |-> 200,
                          chart_data |-> [values |-> Values(by_sku),
                                          labels |-> Keys(by_sku), type |-> "pie"]]
           [] OTHER ->
                /\ rng' = rng
                /\ response' = [status |-> 200, chart_data |-> "null"]
      /\ UNCHANGED <<gen, raw_data, loaded, fnVars, stVars>>

\* GET /health
HealthCheck ==
    \E isoformat \in 1 .. MaxClock :
      /\ request' = [route |-> "/health"]
      /\ frame' = [handler |-> "health_check"]
      /\ response' = [status |-> 200, health |-> "healthy",
                      data_count |-> Len(raw_data), timestamp |-> isoformat]
      /\ UNCHANGED <<gen, rng, raw_data, loaded, fnVars, stVars>>

\* GET /simple
SimpleDashboard ==
    /\ request' = [route |-> "/simple"]
    /\ frame' = [handler |-> "simple_dashboard"]
    /\ response' = [status |-> 200, page |-> "simple",
                    current_revenue |->
                        inr_format_flask(PyInt(SumField(raw_data, "revenue_inr"))).value,
                    current_customers |-> CountCustomers(raw_data),
                    data_records |-> Len(raw_data)]
    /\ UNCHANGED <<gen, rng, raw_data, loaded, fnVars, stVars>>

Next ==
    \/ Dashboard
    \/ GetData
    \/ GetCharts
    \/ HealthCheck
    \/ SimpleDashboard

Spec == Init /\ [][Next]_allVars

----------------------------------------------------------------------------
(* SpecSt: load_data of revenue.py and a run of the Streamlit script       *)

StRows      == 6    \* rows of the data frame (n_records of load_data is 2000)
StCustomers == 3    \* customer ids drawn from (load_data draws from 300)
MaxAhead    == 3    \* years of the clock, BaseYear .. BaseYear + MaxAhead

BaseYear == 2022
MaxOffset == 1000
StRevenueLow == 100000
StRevenueHigh == 20000000
StDrawsPerRow == 15

MonthDays(year) ==
    <<31, IF year % 4 = 0 THEN 29 ELSE 28, 31, 30, 31, 30, 31, 31, 30, 31, 30, 31>>

YearDays(year) == IF year % 4 = 0 THEN 366 ELSE 365

\* the year and month of base_date + timedelta(days=offset), base_date
\* being 1 January of BaseYear
RECURSIVE DateOf(_, _)
DateOf(year, offset) ==
    IF offset >= YearDays(year) THEN DateOf(year + 1, offset - YearDays(year))
    ELSE [y |-> year,
          m |-> CHOOSE m \in 1 .. 12 :
                  /\ SumRange(MonthDays(year), 1, m - 1) <= offset
                  /\ offset < SumRange(MonthDays(year), 1, m)]

canonical_ids == [i \in 1 .. StCustomers |-> "CUST_" \o Pad4(i)]
canonical_names == [i \in 1 .. StCustomers |-> "Company_" \o IntStr(i)]
cohorts == <<"Y+1", "Y+2", "Y+3">>

\* the row load_data appends, its first draw made in state g, with the
\* derived columns FY, quarter, month and revenue_inr (the draws of
\* activate_on_y and end_date are made, the two columns are not kept)
NewRow(g) ==
    LET trans_date == DateOf(BaseYear, randint(g, 0, MaxOffset))
    IN  [canonical_id     |-> choice(Advance(g, 1), canonical_ids),
         canonical_name   |-> choice(Advance(g, 2), canonical_names),
         sector           |-> choice(Advance(g, 3), sectors),
         sku              |-> choice(Advance(g, 4), skus),
         trans_date       |-> trans_date,
         daysActive       |-> randint(Advance(g, 7), 0, 30),
         clickCount       |-> randint(Advance(g, 8), 0, 1000),
         revenue_inr      |-> uniform(Advance(g, 9), StRevenueLow, StRevenueHigh),
         downloads        |-> randint(Advance(g, 10), 0, 500),
         searches         |-> randint(Advance(g, 11), 0, 800),
         listing_price    |-> uniform(Advance(g, 12), 50000, 500000),
         retention_cohort |-> choice(Advance(g, 13), cohorts),
         region           |-> choice(Advance(g, 14), regions),
         FY               |-> trans_date.y,
         quarter          |-> (trans_date.m - 1) \div 3 + 1,
         month            |-> trans_date.m]

\* revenue.py load_data: the rows of the data frame
st_load_data ==
    Listed([i \in 1 .. StRows |->
        NewRow(Advance(Seeded(Seed), StDrawsPerRow * (i - 1)))])

\* frame[column].nunique()
nunique(frame_, column) == Cardinality({frame_[i][column] : i \in DOMAIN frame_})

\* current_revenue / current_customers if current_customers > 0 else 0
avg_revenue_per_customer(current_revenue, current_customers) ==
    IF current_customers > 0 THEN Rat(current_revenue, current_customers)
    ELSE PyInt(0)

\* retention_rate with the current-year set as the divisor
retention_rate_current(current_year_customers, last_year_customers) ==
    LET retained_customers == current_year_customers \cap last_year_customers
    IN  IF current_year_customers # {}
        THEN RMul(Rat(Cardinality(retained_customers),
                      Cardinality(current_year_customers)), PyInt(100))
        ELSE PyInt(0)

\* len(retained) / len(last_year_customers) * 100 if last_year_customers else 0
retention_rate(current_year_customers, last_year_customers) ==
    LET retained_customers == current_year_customers \cap last_year_customers
    IN  IF last_year_customers # {}
        THEN RMul(Rat(Cardinality(retained_customers),
                      Cardinality(last_year_customers)), PyInt(100))
        ELSE PyInt(0)

\* the entries of the time_periods dict
time_periods(frame_, clock) ==
    [All_Time        |-> frame_,
     Current_Month   |-> SelectSeq(frame_, LAMBDA r : r.trans_date = clock),
     Current_Quarter |-> SelectSeq(frame_, LAMBDA r :
                             r.quarter = (clock.m - 1) \div 3 + 1),
     Current_Year    |-> SelectSeq(frame_, LAMBDA r : r.FY = clock.y),
     Last_Year       |-> SelectSeq(frame_, LAMBDA r : r.FY = clock.y - 1)]

\* a multiselect filter on column: no filter when 'All' is among the
\* selected values or nothing is selected
isin_filter(frame_, column, chosen) ==
    IF "All" \notin chosen /\ chosen # {}
    THEN SelectSeq(frame_, LAMBDA r : r[column] \in chosen)
    ELSE frame_

\* filtered_df of the script
filtered_df(frame_, clock, sel) ==
    isin_filter(isin_filter(time_periods(frame_, clock)[sel.period],
                            "sku", sel.sku),
                "sector", sel.industry)

\* the customer ids of the rows of fiscal year fy
CustomersOf(frame_, fy) ==
    {frame_[i].canonical_id : i \in {j \in DOMAIN frame_ : frame_[j].FY = fy}}

PyInf == [t |-> "inf"]

\* a / b * 100 of two numpy floats: no exception, nan and inf instead
float_ratio_percent(a, b) ==
    IF a.t = "nan" \/ b.t = "nan" THEN PyNaN
    ELSE IF b.n = 0 THEN (IF a.n = 0 THEN PyNaN ELSE PyInf)
    ELSE RMul(RDiv(a, b), PyInt(100))

\* frame[column].mean(): nan for no rows
mean(frame_, column) ==
    IF frame_ = <<>> THEN PyNaN ELSE Rat(SumField(frame_, column), Len(frame_))

\* the 'Usage Category' column of usage_df
usage_category(row) == classify_usage(PyInt(row.daysActive)).value

\* usage_df.groupby('sector')['daysActive'].mean(): the index entries a
\* descending sort can put first (ties are in no specified order)
top_sectors(frame_) ==
    LET present == {frame_[i].sector : i \in DOMAIN frame_}
        of(sector) == SelectSeq(frame_, LAMBDA r : r.sector = sector)
    IN  {sector \in present :
            \A other \in present :
                ~RLess(mean(of(sector), "daysActive"), mean(of(other), "daysActive"))}

\* how the usage tab ends: the dormant-users chart calls update_xaxis,
\* which a plotly figure does not have; the top-industry lookup takes
\* .index[0] of the grouped means
usage_tab_outcome(fdf) ==
    IF \E i \in DOMAIN fdf : usage_category(fdf[i]) = "Dormant"
    THEN Raise("AttributeError")
    ELSE IF fdf = <<>> THEN Raise("IndexError")
    ELSE Ret(PyNone)

\* the figures one run of the script computes for the KPI rows and the
\* insight boxes of its three tabs, and how the run ends
script(frame_, clock, sel) ==
    LET fdf == filtered_df(frame_, clock, sel)
        current_revenue == SumField(fdf, "revenue_inr")
        current_customers == nunique(fdf, "canonical_id")
        last_year_data == SelectSeq(frame_, LAMBDA r : r.FY = clock.y - 1)
        last_year_revenue == SumField(last_year_data, "revenue_inr")
        current_year_customers == CustomersOf(frame_, clock.y)
        last_year_customers == CustomersOf(frame_, clock.y - 1)
    IN  [current_year |-> clock.y,
         filtered_df |-> fdf,
         current_revenue |-> current_revenue,
         current_customers |-> current_customers,
         avg_revenue_per_customer |->
             avg_revenue_per_customer(current_revenue, current_customers),
         revenue_growth |->
             percentage_change_streamlit(PyInt(current_revenue),
                                         PyInt(last_year_revenue)).value,
         current_year_customers |-> current_year_customers,
         last_year_customers |-> last_year_customers,
         retention_rate |->
             retention_rate(current_year_customers, last_year_customers),
         enterprise_share |->
             float_ratio_percent(
                 PyInt(SumField(SelectSeq(fdf, LAMBDA r : r.sku = "TP Enterprise"),
                                "revenue_inr")),
                 PyInt(current_revenue)),
         total_active |-> Len(SelectSeq(fdf, LAMBDA r : r.daysActive > 0)),
         avg_downloads |-> mean(fdf, "downloads"),
         avg_searches |-> mean(fdf, "searches"),
         stickiness |->
             LET weekly_active == Len(SelectSeq(fdf, LAMBDA r : r.daysActive >= 7))
                 monthly_active == Len(SelectSeq(fdf, LAMBDA r : r.daysActive >= 1))
             IN  IF monthly_active > 0 THEN Rat(weekly_active, monthly_active)
                 ELSE PyInt(0),
         top_active_industry |-> PyNone,
         conversion |->
             float_ratio_percent(mean(fdf, "downloads"), mean(fdf, "searches")),
         outcome |-> usage_tab_outcome(fdf)]

Clock == {[y |-> BaseYear + k, m |-> mm] : k \in 0 .. MaxAhead, mm \in {2, 6, 11}}

PeriodNames ==
    {"All_Time", "Current_Month", "Current_Quarter", "Current_Year", "Last_Year"}

\* the selections the sidebar offers: the options of a multiselect are
\* 'All' and the values of the column
Selections(frame_) ==
    [period   : PeriodNames,
     sku      : {{"All"}, {}, {"TP Enterprise"}, {"TP Starter", "TP Premium"}}
                  \cap SUBSET ({"All"} \cup {frame_[i].sku : i \in DOMAIN frame_}),
     industry : {{"All"}, {"Finance"}, {"Technology", "Retail"}}
                  \cap SUBSET ({"All"} \cup {frame_[i].sector : i \in DOMAIN frame_})]

InitSt ==
    /\ gen \in Generators
    /\ df = st_load_data
    /\ now \in Clock
    /\ selected = <<>>
    /\ shown = <<>>
    /\ FnIdle
    /\ FlaskIdle

\* one run of the script under a sidebar selection; the runs of a session
\* fall in the same month
RunScript ==
    \E sel \in Selections(df) :
      \E run \in {script(df, now, sel)} :
        \E top \in IF run.outcome.kind = "return"
                    THEN {PyStr(sector) : sector \in top_sectors(run.filtered_df)}
                    ELSE {PyNone} :
          /\ selected' = sel
          /\ shown' = [run EXCEPT !.top_active_industry = top]
          /\ UNCHANGED <<df, now, gen, fnVars, vars>>

NextSt == RunScript

SpecSt == InitSt /\ [][NextSt]_allVars

----------------------------------------------------------------------------
(* SpecLoad: invocations of load_data from any state of the generator      *)

MaxPrior == 2   \* generator states before the first invocation:
                \* seeds Seed .. Seed + MaxPrior, 0 .. MaxPrior draws made
MaxDraws == 2   \* batches of draws other code makes after an invocation

\* load_data of app.py without its call of random.seed
call_load_data_unseeded(g) ==
    [data |-> Listed([i \in 1 .. NumRecords |->
                 NewRecord(i - 1, Advance(g, DrawsPerRecord * (i - 1)))]),
     rng  |-> Advance(g, DrawsPerRecord * NumRecords)]

\* app.py load_data invoked with the process-wide generator in state g:
\* the list it returns and the state it leaves the generator in
call_load_data(g) ==
    LET seeded == Seeded(Seed)
    IN  [data |-> Listed([i \in 1 .. NumRecords |->
                     NewRecord(i - 1, Advance(seeded, DrawsPerRecord * (i - 1)))]),
         rng  |-> Advance(seeded, DrawsPerRecord * NumRecords)]

\* revenue.py load_data invoked with the generator in state g (the body,
\* which st.cache_data runs on a cache miss)
call_st_load_data(g) ==
    LET seeded == Seeded(Seed)
    IN  [data |-> Listed([i \in 1 .. StRows |->
                     NewRow(Advance(seeded, StDrawsPerRow * (i - 1)))]),
         rng  |-> Advance(seeded, StDrawsPerRow * StRows)]

\* the states the generator can be in when load_data is first invoked
PriorStates ==
    {[seed |-> Seed + s, pos |-> p] : s \in 0 .. MaxPrior, p \in 0 .. MaxPrior}

InitLoad ==
    /\ gen \in Generators
    /\ rng \in PriorStates
    /\ raw_data = <<>> /\ loaded = <<>>
    /\ request = <<>> /\ frame = <<>> /\ response = <<>>
    /\ FnIdle
    /\ StIdle

\* load_data() of app.py; args records the state the generator was in
CallLoadDataFlask ==
    \E run \in {call_load_data(rng)} :
      /\ args' = <<rng>>
      /\ called' = "load_data_flask"
      /\ result' = Ret(run.data)
      /\ rng' = run.rng
      /\ UNCHANGED <<gen, raw_data, loaded, request, frame, response, stVars>>

\* load_data() of revenue.py under st.cache_data: the body runs on the
\* first invocation, later invocations are answered from the cache (df)
CallLoadDataStreamlit ==
    \E run \in {call_st_load_data(rng)} :
      /\ args' = <<rng>>
      /\ called' = "load_data_streamlit"
      /\ IF df = <<>>
         THEN /\ df' = run.data
              /\ result' = Ret(run.data)
              /\ rng' = run.rng
         ELSE /\ result' = Ret(df)
              /\ UNCHANGED <<df, rng>>
      /\ UNCHANGED <<gen, raw_data, loaded, request, frame, response,
                     now, selected, shown>>

\* other code draws from the process-wide generator after an invocation:
\* the randint calls of a revenue_trend request
DrawTrend ==
    /\ called # "none"
    /\ rng.pos < Len(Months) * MaxDraws
                   + (IF called = "load_data_flask"
                      THEN DrawsPerRecord * NumRecords
                      ELSE StDrawsPerRow * StRows)
    /\ rng' = Advance(rng, Len(Months))
    /\ UNCHANGED <<gen, raw_data, loaded, request, frame, response,
                   fnVars, stVars>>

NextLoad ==
    \/ CallLoadDataFlask
    \/ CallLoadDataStreamlit
    \/ DrawTrend

SpecLoad == InitLoad /\ [][NextLoad]_allVars

----------------------------------------------------------------------------
(* SpecData: get_data over record lists in which fields may be absent      *)

MaxRecords == 2     \* records of the list, 0 .. MaxRecords

\* two records of the shape load_data builds
SampleRecords ==
    {[canonical_id |-> "CUST_0000", canonical_name |-> "Company_0",
      sector |-> "Finance", sku |-> "TP Enterprise", revenue_inr |-> 250000,
      daysActive |-> 0, downloads |-> 10, searches |-> 20, region |-> "North"],
     [canonical_id |-> "CUST_0001", canonical_name |-> "Company_1",
      sector |-> "Retail", sku |-> "TP Enterprise", revenue_inr |-> 4800000,
      daysActive |-> 30, downloads |-> 500, searches |-> 800, region |-> "West"]}

\* the fields a record of the list may lack (none, one of those get_data
\* reads, or all of the numeric ones)
Absent ==
    {{}, {"revenue_inr"}, {"daysActive"}, {"canonical_id"}, {"sku"},
     {"revenue_inr", "downloads", "searches", "daysActive"}}

\* item without the keys in absent
Without(item, absent) == [k \in DOMAIN item \ absent |-> item[k]]

PartialRecords == {Without(item, absent) : item \in SampleRecords, absent \in Absent}

RecordLists ==
    UNION {[1 .. n -> PartialRecords] : n \in 0 .. MaxRecords}

InitData ==
    /\ gen = <<>>
    /\ rng = <<>>
    /\ raw_data \in RecordLists
    /\ loaded = raw_data
    /\ request = NoRequest
    /\ frame = NoFrame
    /\ response = NoResponse
    /\ FnIdle
    /\ StIdle

NextData == GetData

SpecData == InitData /\ [][NextData]_allVars

----------------------------------------------------------------------------
(* Claims about the helper functions (checked under SpecFn)                *)

PctCalled == called \in {"percentage_change_flask", "percentage_change_streamlit"}

\* C1: percentage_change(current, previous), in both variants, returns
\* (current - previous) / previous * 100 when previous is a number other
\* than 0, and for previous = 0 returns exactly 100 if current > 0 and
\* exactly 0 otherwise; (0,0) -> 0, (100,0) -> 100, (150,100) -> 50,
\* (50,100) -> -50.
C1_PercentageChange ==
    (PctCalled /\ IsNum(args[1]) /\ IsNum(args[2])) =>
        LET c == args[1]
            p == args[2]
        IN  /\ result.kind = "return"
            /\ IsNum(result.value)
            /\ p.n # 0 =>
                 \* v = ((c - p) / p) * 100, cross-multiplied
                 result.value.n * (c.d * p.n)
                     = result.value.d * 100 * (c.n * p.d - p.n * c.d)
            /\ (p.n = 0 /\ c.n > 0) => result.value = PyInt(100)
            /\ (p.n = 0 /\ c.n <= 0) => result.value = PyInt(0)
            /\ args = <<PyInt(0), PyInt(0)>> => result.value = PyInt(0)
            /\ args = <<PyInt(100), PyInt(0)>> => result.value = PyInt(100)
            /\ args = <<PyInt(150), PyInt(100)>> => result.value = PyInt(50)
            /\ args = <<PyInt(50), PyInt(100)>> => result.value = PyInt(-50)

\* C1 witness: the Streamlit variant has computed (50, 100) -> -50.
C1_Witness ==
    /\ called = "percentage_change_streamlit"
    /\ args = <<PyInt(50), PyInt(100)>>
    /\ result = Ret(PyInt(-50))

TierRank(tier) ==
    CASE tier = "Dormant" -> 0
      [] tier = "Low"     -> 1
      [] tier = "Medium"  -> 2
      [] tier = "Heavy"   -> 3

\* C4: classify_usage is total over integers days >= 0: days >= 20 is
\* Heavy, 10..19 Medium, 1..9 Low, 0 Dormant, and the tier never decreases
\* as days grows.
C4_ClassifyUsage ==
    (called = "classify_usage" /\ IsNum(args[1]) /\ args[1].n >= 0) =>
        LET days == args[1].n
        IN  /\ result.kind = "return"
            /\ result.value \in {"Heavy", "Medium", "Low", "Dormant"}
            /\ result.value = "Heavy"   <=> days >= 20
            /\ result.value = "Medium"  <=> (10 <= days /\ days <= 19)
            /\ result.value = "Low"     <=> (1 <= days /\ days <= 9)
            /\ result.value = "Dormant" <=> days = 0
            /\ \A fewer \in DayCounts :
                 fewer <= days =>
                     TierRank(classify_usage(PyInt(fewer)).value)
                         <= TierRank(result.value)

\* C4 witness: 20 days of activity have been classified Heavy.
C4_Witness ==
    /\ called = "classify_usage"
    /\ args = <<PyInt(20)>>
    /\ result = Ret("Heavy")

FmtCalled == called \in {"inr_format_flask", "inr_format_streamlit"}

EndsWith(text, suffix) ==
    /\ Len(text) >= Len(suffix)
    /\ SubSeq(text, Len(text) - Len(suffix) + 1, Len(text)) = suffix

\* the band a formatted amount shows
ShownBand(text) ==
    IF text = ZeroText THEN "zero"
    ELSE IF EndsWith(text, " Cr") THEN "crore"
    ELSE IF EndsWith(text, " L") THEN "lakh"
    ELSE "plain"

\* C5: inr_format picks its band from the magnitude of x alone: the zero
\* text iff x is 0 or absent, Crore (x / 10,000,000, suffix Cr) iff
\* |x| >= 10,000,000, Lakh (x / 100,000, suffix L) iff
\* 100,000 <= |x| < 10,000,000, plain grouped digits iff 0 < |x| < 100,000;
\* each edge belongs to the higher band and a negative amount uses the band
\* of its absolute value.
C5_Bands ==
    (FmtCalled /\ args[1].t \in {"num", "none"}) =>
        LET absent == args[1].t = "none"
            x      == IF absent THEN 0 ELSE args[1].n
            band   == ShownBand(result.value)
        IN  /\ result.kind = "return"
            /\ band = "zero"  <=> (absent \/ x = 0)
            /\ band = "crore" <=> Abs(x) >= 10000000
            /\ band = "lakh"  <=> (100000 <= Abs(x) /\ Abs(x) < 10000000)
            /\ band = "plain" <=> (0 < Abs(x) /\ Abs(x) < 100000)
            /\ band = "crore" =>
                 result.value = Rupee \o Fixed2(x, 10000000) \o " Cr"
            /\ band = "lakh" =>
                 result.value = Rupee \o Fixed2(x, 100000) \o " L"
            /\ (~absent /\ PyInt(-x) \in {a[1] : a \in FnArgs}) =>
                 ShownBand(inr_format_flask(PyInt(-x)).value) = band

\* C5 witness: the amount -100,000, on the Lakh edge, is shown in Lakhs.
C5_Witness ==
    /\ called = "inr_format_streamlit"
    /\ args = <<PyInt(-100000)>>
    /\ result = Ret("Rs-1.00 L")

\* C6: inr_format never raises, and for a missing value (None, NaN) or a
\* non-numeric value such as a string it returns the text it returns for 0,
\* in both variants.
C6_NeverRaises ==
    FmtCalled =>
        /\ result.kind = "return"
        /\ ~IsNum(args[1]) => result = inr_format_flask(PyInt(0))

----------------------------------------------------------------------------
(* Claims about the Flask process (checked under Spec)                     *)

\* whether record item passes the (sku, industry) criteria
Matches(item, sku, industry) ==
    /\ sku # "all" => ("sku" \in DOMAIN item /\ item["sku"] = sku)
    /\ industry # "all" => ("sector" \in DOMAIN item /\ item["sector"] = industry)

\* the positions of data whose record passes the criteria
Matching(data, sku, industry) ==
    {i \in DOMAIN data : Matches(data[i], sku, industry)}

\* the sum of field key over the positions pos of data
SumOver(data, pos, key) ==
    SumInts(Listed([i \in DOMAIN data |->
                      IF i \in pos THEN Get(data[i], key, 0) ELSE 0]))

\* C2: for every dataset and every (sku, industry) filter, /api/data
\* reports avg_revenue_per_customer = total_revenue / unique_customers when
\* the filtered subset holds at least one customer id, and 0, with no
\* error, when it holds none.
C2_AvgRevenue ==
    request.route = "/api/data" =>
        LET pos       == Matching(loaded, request.sku, request.industry)
            total     == SumOver(loaded, pos, "revenue_inr")
            customers == Cardinality({loaded[i].canonical_id : i \in pos})
            avg       == response.json.avg_revenue_per_customer
        IN  /\ response.status = 200
            /\ response.json.total_revenue = total
            /\ response.json.total_customers = customers
            /\ customers > 0 => avg.n * customers = avg.d * total
            /\ customers = 0 => avg = PyInt(0)

\* C2 witness: a filter that matches nothing has been answered with 0, no
\* error, on a loaded dataset.
C2_Witness ==
    /\ request.route = "/api/data"
    /\ loaded # <<>>
    /\ request.sku = "TP Enterprise" /\ request.industry = "Mining"
    /\ response.status = 200
    /\ response.json.avg_revenue_per_customer = PyInt(0)

\* C3: in get_data the filtered subset is exactly the records of the
\* dataset whose sku equals the requested sku (unless 'all') and whose
\* sector equals the requested industry (unless 'all'), in the dataset's
\* order: a subset of the dataset, the dataset itself for ('all', 'all'),
\* the same in either order of the two filters, and empty, with a normal
\* zero-valued response, when nothing matches.
C3_Filter ==
    request.route = "/api/data" =>
        LET fd   == frame.filtered_data
            sku  == request.sku
            ind  == request.industry
            keep == SelectSeq(Indices(raw_data),
                              LAMBDA i : Matches(raw_data[i], sku, ind))
        IN  /\ fd = [k \in DOMAIN keep |-> raw_data[keep[k]]]
            /\ Range(fd) \subseteq Range(raw_data)
            /\ (sku = "all" /\ ind = "all") => fd = raw_data
            /\ fd = FilterSku(FilterIndustry(raw_data, ind), sku)
            /\ keep = <<>> =>
                 /\ fd = <<>>
                 /\ response.status = 200
                 /\ response.json =
                      [total_revenue |-> 0, total_customers |-> 0,
                       avg_revenue_per_customer |-> PyInt(0),
                       total_downloads |-> 0, total_searches |-> 0,
                       active_users |-> 0]

\* C3 witness: both filters are set and some but not all records of the
\* sku pass the industry filter.
C3_Witness ==
    /\ request.route = "/api/data"
    /\ request.sku = "TP Enterprise" /\ request.industry = "Finance"
    /\ frame.filtered_data # <<>>
    /\ Len(frame.filtered_data) < Len(FilterSku(raw_data, "TP Enterprise"))
    /\ Len(frame.filtered_data) < Len(FilterIndustry(raw_data, "Finance"))

TemplateServed == request.route = "/" /\ response.page = "dashboard.html"

\* C7: the top-customer selection of the dashboard over the records with
\* revenue > 0 returns exactly min(10, number of such records) records, by
\* revenue descending, records of equal revenue in their order in the
\* dataset, and no omitted record has a strictly larger revenue than a
\* returned one.
C7_TopCustomers ==
    TemplateServed =>
        LET top      == response.top_customers
            at       == frame.top_idx
            positive == {i \in DOMAIN loaded : loaded[i].revenue_inr > 0}
            fewest   == IF Cardinality(positive) < 10
                        THEN Cardinality(positive) ELSE 10
        IN  /\ Len(top) = fewest
            /\ Len(at) = Len(top)
            /\ \A k \in DOMAIN top :
                 /\ at[k] \in positive
                 /\ top[k].canonical_id = loaded[at[k]].canonical_id
                 /\ top[k].revenue_inr = loaded[at[k]].revenue_inr
            /\ \A k, l \in DOMAIN top :
                 k < l =>
                     /\ at[k] # at[l]
                     /\ top[k].revenue_inr >= top[l].revenue_inr
                     /\ top[k].revenue_inr = top[l].revenue_inr => at[k] < at[l]
            /\ \A i \in positive \ Range(at) :
                 \A k \in DOMAIN top :
                     /\ loaded[i].revenue_inr <= top[k].revenue_inr
                     /\ loaded[i].revenue_inr = top[k].revenue_inr => at[k] < i

\* C7 witness: ten of more than ten records were returned, two of them
\* with equal revenue.
C7_Witness ==
    /\ TemplateServed
    /\ Len(response.top_customers) = 10
    /\ Len(loaded) > 10
    /\ \E k \in 1 .. 9 :
         response.top_customers[k].revenue_inr
             = response.top_customers[k + 1].revenue_inr

\* the position of the first record of data whose SKU is sku
FirstOf(data, sku) ==
    CHOOSE i \in DOMAIN data :
        /\ Get(data[i], "sku", "Unknown") = sku
        /\ \A j \in 1 .. i - 1 : Get(data[j], "sku", "Unknown") # sku

\* keys and values are the revenue-by-SKU mapping of data
IsGroupSum(keys, values, data) ==
    /\ Len(keys) = Len(values)
    /\ Range(keys) = {Get(data[i], "sku", "Unknown") : i \in DOMAIN data}
    /\ \A j, k \in DOMAIN keys :
         j < k => FirstOf(data, keys[j]) < FirstOf(data, keys[k])
    /\ \A j \in DOMAIN keys :
         values[j] =
             SumOver(data, {i \in DOMAIN data :
                               Get(data[i], "sku", "Unknown") = keys[j]},
                     "revenue_inr")
    /\ SumInts(values) = SumOver(data, DOMAIN data, "revenue_inr")

\* C8: the revenue-by-SKU aggregation yields the SKUs occurring in the
\* list, in order of first encounter, each with the sum of revenue of its
\* records; the values add up to the total revenue; and it yields the same
\* keys, sums and order whenever it runs again on the dataset, whatever
\* requests were served in between.
C8_GroupSum ==
    /\ (request.route = "/api/charts" /\ request.type = "sku_distribution") =>
         IsGroupSum(response.chart_data.labels, response.chart_data.values, loaded)
    /\ TemplateServed =>
         /\ IsGroupSum(response.revenue_chart.x, response.revenue_chart.y, loaded)
         /\ response.sku_chart.labels = response.revenue_chart.x
         /\ response.sku_chart.values = response.revenue_chart.y

\* C8 witness: the SKU chart was served after the dashboard had run, with
\* several SKUs of several records each.
C8_Witness ==
    /\ request.route = "/api/charts" /\ request.type = "sku_distribution"
    /\ raw_data # loaded
    /\ Len(response.chart_data.labels) > 2
    /\ Len(loaded) > Len(response.chart_data.labels)

\* C10: raw_data is never mutated after start-up: after any sequence of
\* requests it has the same length and every record has exactly the keys
\* and values it had when load_data returned.
C10_RawDataImmutable == raw_data = loaded

----------------------------------------------------------------------------
(* Claims about the Streamlit script (checked under SpecSt)                *)

\* C9: the retention rate computed from the current-year and the last-year
\* customer ids equals |current /\ previous| / |previous| * 100 when the
\* previous set is not empty and 0 when it is empty; it always lies
\* between 0 and 100.
C9_RetentionRate ==
    shown # <<>> =>
        LET year == shown.current_year
            cur  == {df[i].canonical_id : i \in {j \in DOMAIN df : df[j].FY = year}}
            prev == {df[i].canonical_id :
                        i \in {j \in DOMAIN df : df[j].FY = year - 1}}
            both == {c \in cur : c \in prev}
            rate == shown.retention_rate
        IN  /\ IsNum(rate)
            /\ prev # {} =>
                 rate.n * Cardinality(prev) = rate.d * 100 * Cardinality(both)
            /\ prev = {} => rate = PyInt(0)
            /\ 0 <= rate.n /\ rate.n <= 100 * rate.d

\* C9 witness: some but not all of last year's customers were retained.
C9_Witness ==
    /\ shown # <<>>
    /\ shown.last_year_customers # {}
    /\ shown.retention_rate.n > 0
    /\ shown.retention_rate.n < 100 * shown.retention_rate.d

\* Companion of C2 for the Streamlit variant: the script's average revenue
\* per customer is current_revenue / current_customers over the filtered
\* rows, and 0 when no row passes the filters.
C2_StreamlitAvgRevenue ==
    shown # <<>> =>
        LET avg == shown.avg_revenue_per_customer
        IN  /\ shown.current_customers > 0 =>
                 avg.n * shown.current_customers = avg.d * shown.current_revenue
            /\ shown.filtered_df = <<>> => avg = PyInt(0)

----------------------------------------------------------------------------
(* Claims about load_data (checked under SpecLoad)                         *)

\* C11: load_data is deterministic: every invocation returns the same
\* record sequence, whatever state the process-wide generator was in when
\* it was invoked and however many values were drawn before or between the
\* invocations, because each invocation reseeds with the fixed seed.
C11_LoadDeterministic ==
    /\ called = "load_data_flask" => result = Ret(load_data)
    /\ called = "load_data_streamlit" => result = Ret(st_load_data)

\* C11 witness: load_data of app.py was invoked again after an earlier
\* invocation and draws of other code, and returned the same records.
C11_Witness ==
    /\ called = "load_data_flask"
    /\ args[1].seed = Seed
    /\ args[1].pos > DrawsPerRecord * NumRecords
    /\ result = Ret(load_data)

\* C12: every dataset load_data of app.py returns has exactly 50 records,
\* and each record has revenue_inr in 100000 .. 5000000, daysActive in
\* 0 .. 30, downloads in 0 .. 500, searches in 0 .. 800, its sector, sku
\* and region in the fixed sets of 8, 4 and 5 values, and canonical_id
\* CUST_<index>, so that the customer ids are pairwise distinct.
C12_RecordInvariants ==
    called = "load_data_flask" =>
        LET data == result.value
        IN  /\ Len(data) = 50
            /\ \A i \in DOMAIN data :
                 /\ DOMAIN data[i] =
                      {"canonical_id", "canonical_name", "sector", "sku",
                       "revenue_inr", "daysActive", "downloads", "searches",
                       "region"}
                 /\ 100000 <= data[i].revenue_inr
                 /\ data[i].revenue_inr <= 5000000
                 /\ data[i].daysActive \in 0 .. 30
                 /\ data[i].downloads \in 0 .. 500
                 /\ data[i].searches \in 0 .. 800
                 /\ data[i].sector \in
                      {"Technology", "Healthcare", "Finance", "Manufacturing",
                       "Retail", "Education", "Government", "Consulting"}
                 /\ data[i].sku \in
                      {"TP Starter", "TP Professional", "TP Enterprise",
                       "TP Premium"}
                 /\ data[i].region \in
                      {"North", "South", "East", "West", "Central"}
                 /\ data[i].canonical_id = "CUST_" \o Pad4(i - 1)
            /\ \A i, j \in DOMAIN data :
                 i # j => data[i].canonical_id # data[j].canonical_id

\* C12 witness: a dataset was returned in which the upper edge of
\* daysActive and all four SKUs occur.
C12_Witness ==
    /\ called = "load_data_flask"
    /\ Len(result.value) = NumRecords
    /\ \E i \in DOMAIN result.value : result.value[i].daysActive = 30
    /\ {result.value[i].sku : i \in DOMAIN result.value} = Range(skus)

----------------------------------------------------------------------------
(* Further claims about the Flask process (checked under Spec)             *)

\* C13: when load_data raised during start-up, raw_data is the empty list
\* and every request is answered without an error and with zero-valued
\* content: /api/data with six metrics of 0, /health with status healthy
\* and data_count 0, / and /simple with revenue 0, customers 0 and
\* growth 0.
C13_EmptyDataset ==
    loaded = <<>> =>
        /\ raw_data = <<>>
        /\ request.route = "/api/data" =>
             /\ response.status = 200
             /\ response.json =
                  [total_revenue |-> 0, total_customers |-> 0,
                   avg_revenue_per_customer |-> PyInt(0),
                   total_downloads |-> 0, total_searches |-> 0,
                   active_users |-> 0]
        /\ request.route = "/health" =>
             /\ response.status = 200
             /\ response.health = "healthy"
             /\ response.data_count = 0
        /\ request.route = "/simple" =>
             /\ response.status = 200
             /\ response.page = "simple"
             /\ response.current_revenue = ZeroText
             /\ response.current_customers = 0
             /\ response.data_records = 0
        /\ request.route = "/" =>
             /\ response.status = 200
             /\ response.current_revenue = ZeroText
             /\ response.page = "dashboard.html" =>
                  /\ response.current_customers = 0
                  /\ response.revenue_growth = "+0.0%"
                  /\ response.customer_growth = "+0.0%"
                  /\ response.top_customers = <<>>
             /\ response.page = "fallback" => response.total_customers = 0

\* C13 witness: after a failed load the dashboard page was served with
\* zero revenue and zero growth.
C13_Witness ==
    /\ loaded = <<>> /\ raw_data = <<>>
    /\ request.route = "/"
    /\ response.page = "dashboard.html"
    /\ response.current_revenue = ZeroText
    /\ response.revenue_growth = "+0.0%"

----------------------------------------------------------------------------
(* Further claims about the Streamlit script (checked under SpecSt)        *)

\* C14: when no row passes the period, SKU and industry filters, a run of
\* the script computes every metric and ends without an exception: the
\* Enterprise revenue share, the top-active-industry lookup and the
\* search-to-download ratio all complete.
C14_EmptySelection ==
    (shown # <<>> /\ shown.filtered_df = <<>>) =>
        /\ shown.outcome.kind = "return"
        /\ shown.enterprise_share.t \in {"num", "nan"}
        /\ shown.conversion.t \in {"num", "nan"}
        /\ shown.top_active_industry.t = "str"

----------------------------------------------------------------------------
(* Claims about get_data over incomplete records (checked under SpecData)  *)

\* item with 0 for each absent numeric field and '' for an absent id
Completed(item) ==
    item @@ [revenue_inr |-> 0, downloads |-> 0, searches |-> 0,
             daysActive |-> 0, canonical_id |-> ""]

\* the sum of field key of the records of full at the positions pos
Total(full, pos, key) ==
    SumInts(Listed([i \in DOMAIN full |-> IF i \in pos THEN full[i][key] ELSE 0]))

\* C15: every numeric aggregate of get_data treats an absent field as 0:
\* for a record list in which records lack revenue_inr, downloads, searches
\* or daysActive, the totals and active_users equal those of the same list
\* with each absent field set to 0, records lacking canonical_id count as
\* one shared empty id, and the response is not an error.
C15_AbsentFields ==
    request.route = "/api/data" =>
        LET pos  == Matching(loaded, request.sku, request.industry)
            full == [i \in DOMAIN loaded |-> Completed(loaded[i])]
        IN  /\ response.status = 200
            /\ response.json.total_revenue = Total(full, pos, "revenue_inr")
            /\ response.json.total_downloads = Total(full, pos, "downloads")
            /\ response.json.total_searches = Total(full, pos, "searches")
            /\ response.json.active_users =
                 Cardinality({i \in pos : full[i].daysActive > 0})
            /\ response.json.total_customers =
                 Cardinality({full[i].canonical_id : i \in pos})

\* C15 witness: the metrics were computed over two records, one lacking
\* its numeric fields and one lacking its canonical_id.
C15_Witness ==
    /\ request.route = "/api/data"
    /\ response.status = 200
    /\ Len(frame.filtered_data) = 2
    /\ "revenue_inr" \notin DOMAIN frame.filtered_data[1]
    /\ "daysActive" \notin DOMAIN frame.filtered_data[1]
    /\ "canonical_id" \notin DOMAIN frame.filtered_data[2]
    /\ response.json.total_customers = 2

----------------------------------------------------------------------------
(* Claims about requests in sequence (checked under Spec)                  *)

\* C16: the period of a metrics request is a filter constraint: a record
\* is in the filtered subset only if it falls in the requested time
\* window.  The windows of the current and of the last year are disjoint,
\* so two requests that differ only in asking for the one and for the other
\* have no record in common in their filtered subsets.
C16_PeriodFilter ==
    [][(/\ request.route = "/api/data"
        /\ request'.route = "/api/data"
        /\ request'.sku = request.sku
        /\ request'.industry = request.industry
        /\ request.period = "current_year"
        /\ request'.period = "last_year")
       => Range(frame.filtered_data) \cap Range(frame'.filtered_data) = {}]_allVars

C18_ChartsFunction ==
    [][(/\ request.route = "/api/charts"
        /\ request'.route = "/api/charts"
        /\ request'.type = request.type)
       => response'.chart_data = response.chart_data]_allVars

=============================================================================
